---- MODULE Spec2Model ----
(***************************************************************************)
(* Model of the badge awarding rules of mome_rath (models.py): the Badge   *)
(* and Award tables, Badge.allows_award_to, Badge.award_to,                *)
(* Badge.is_awarded_to and Badge.delete, together with the two form views  *)
(* that write Badge rows.                                                  *)
(*                                                                         *)
(* Spec     : every request runs to completion before the next one starts. *)
(* SpecConc : award_to requests of several workers interleave at the       *)
(*            granularity of one database query per step.                  *)
(***************************************************************************)
EXTENDS Integers, FiniteSets, TLC

\* Largest primary key the Award table hands out in the model.
MaxAwards == 2

None == "None"
Anonymous == "anonymous"

\* Rows of the user table, and the actors a request can carry.
Users == {"admin", "alice"}
Actors == Users \cup {Anonymous, None}
\* Slugs a badge can be created under.
Slugs == {"b1", "b2"}
\* award_to's default for description, and the descriptions that the calls
\* which pass one give.
DefaultDescription == ""
Descriptions == {"evidence"}
\* Worker processes serving requests concurrently.
Procs == {"w1", "w2"}

VARIABLES
    badges,                 \* slugs of the rows of the Badge table
    awarding_prerequisite,  \* Badge.awarding_prerequisite, per slug
    prerequisites,          \* Badge.prerequisites (many-to-many), per slug
    awards,                 \* rows of the Award table
    nextId,                 \* next primary key of the Award table
    last,                   \* the last completed call: its badge, its user, its outcome
    pc,                     \* per worker: the line of award_to it is at
    call                    \* per worker: the arguments of its award_to call

vars == <<badges, awarding_prerequisite, prerequisites, awards, nextId, last, pc, call>>

NoAward == [id |-> 0, badge |-> None, user |-> None, creator |-> None,
            description |-> DefaultDescription]
NoCall == [badge |-> None, awardee |-> None, awarder |-> None,
           description |-> DefaultDescription, raise_already_awarded |-> FALSE]
\* line: the line of award_to at which the call ended (0 for other calls).
NoLast == [op |-> "none", badge |-> None, user |-> None, line |-> 0,
           result |-> "none", ret |-> NoAward]

\* django.contrib.auth: AnonymousUser.is_anonymous() is True, User's is False.
is_anonymous(user) == user = Anonymous

\* User.is_superuser; AnonymousUser.is_superuser is False.
is_superuser(user) == user = "admin"

\* Award.objects.filter(user=user, badge=self)
AwardsOf(b, user) == {a \in awards : a.badge = b /\ a.user = user}

\* Variant: the count is compared the wrong way round.
is_awarded_to_inverted(b, user) == Cardinality(AwardsOf(b, user)) < 0

is_awarded_to(b, user) == Cardinality(AwardsOf(b, user)) > 0

\* Variant: the awarding prerequisite is only tested for being set.
allows_award_to_unchecked(b, user) ==
    IF user = None \/ is_anonymous(user) THEN FALSE
    ELSE IF is_superuser(user) THEN TRUE
    ELSE IF awarding_prerequisite[b] # None THEN TRUE
    ELSE FALSE

\* Variant: a badge without awarding prerequisite is open to every user.
allows_award_to_open(b, user) ==
    IF user = None \/ is_anonymous(user) THEN FALSE
    ELSE IF is_superuser(user) THEN TRUE
    ELSE IF awarding_prerequisite[b] = None
            \/ is_awarded_to(awarding_prerequisite[b], user) THEN TRUE
    ELSE FALSE

allows_award_to(b, user) ==
    IF user = None \/ is_anonymous(user) THEN FALSE
    ELSE IF is_superuser(user) THEN TRUE
    ELSE IF awarding_prerequisite[b] # None
            /\ is_awarded_to(awarding_prerequisite[b], user) THEN TRUE
    ELSE FALSE

\* Award.objects.get(user=awardee, badge=self): exactly one row or an exception.
objects_get(b, awardee) ==
    LET S == AwardsOf(b, awardee) IN
    IF S = {} THEN [result |-> "DoesNotExist", ret |-> NoAward]
    ELSE IF Cardinality(S) > 1 THEN [result |-> "MultipleObjectsReturned", ret |-> NoAward]
    ELSE [result |-> "ok", ret |-> CHOOSE a \in S : TRUE]

\* Award.objects.create(user=awardee, badge=self, creator=awarder, description=description)
objects_create(b, awardee, awarder, description) ==
    [id |-> nextId, badge |-> b, user |-> awardee, creator |-> awarder,
     description |-> description]

\* Variant: the duplicate check comes before the authorization check.
award_to_duplicate_first(b, awardee, awarder, description, raise_already_awarded) ==
    IF is_awarded_to(b, awardee)
    THEN IF raise_already_awarded
         THEN [line |-> 223, result |-> "BadgeAlreadyAwardedException", ret |-> NoAward,
               awards |-> awards]
         ELSE [line |-> 225, result |-> objects_get(b, awardee).result,
               ret |-> objects_get(b, awardee).ret, awards |-> awards]
    ELSE IF ~allows_award_to(b, awarder)
    THEN [line |-> 220, result |-> "BadgeAwardNotAllowedException", ret |-> NoAward,
          awards |-> awards]
    ELSE [line |-> 226, result |-> "ok",
          ret |-> objects_create(b, awardee, awarder, description),
          awards |-> awards \cup {objects_create(b, awardee, awarder, description)}]

\* Variant: raise_already_awarded is ignored, the existing record is returned.
award_to_never_raises(b, awardee, awarder, description, raise_already_awarded) ==
    IF ~allows_award_to(b, awarder)
    THEN [line |-> 220, result |-> "BadgeAwardNotAllowedException", ret |-> NoAward,
          awards |-> awards]
    ELSE IF is_awarded_to(b, awardee)
    THEN [line |-> 225, result |-> objects_get(b, awardee).result,
          ret |-> objects_get(b, awardee).ret, awards |-> awards]
    ELSE [line |-> 226, result |-> "ok",
          ret |-> objects_create(b, awardee, awarder, description),
          awards |-> awards \cup {objects_create(b, awardee, awarder, description)}]

\* Variant: no duplicate check, an authorized call always creates a row.
award_to_always_creates(b, awardee, awarder, description, raise_already_awarded) ==
    IF ~allows_award_to(b, awarder)
    THEN [line |-> 220, result |-> "BadgeAwardNotAllowedException", ret |-> NoAward,
          awards |-> awards]
    ELSE [line |-> 226, result |-> "ok",
          ret |-> objects_create(b, awardee, awarder, description),
          awards |-> awards \cup {objects_create(b, awardee, awarder, description)}]

\* Variant: the cascade of the prerequisites help text, a badge all of whose
\* prerequisites the awardee holds after the award is awarded along with it.
award_to_cascade(b, awardee, awarder, description, raise_already_awarded) ==
    IF ~allows_award_to(b, awarder)
    THEN [line |-> 220, result |-> "BadgeAwardNotAllowedException", ret |-> NoAward,
          awards |-> awards]
    ELSE IF is_awarded_to(b, awardee)
    THEN IF raise_already_awarded
         THEN [line |-> 223, result |-> "BadgeAlreadyAwardedException", ret |-> NoAward,
               awards |-> awards]
         ELSE [line |-> 225, result |-> objects_get(b, awardee).result,
               ret |-> objects_get(b, awardee).ret, awards |-> awards]
    ELSE [line |-> 226, result |-> "ok",
          ret |-> objects_create(b, awardee, awarder, description),
          awards |-> awards \cup {objects_create(b, awardee, awarder, description)}
                     \cup {[id |-> nextId + 1, badge |-> c, user |-> awardee,
                            creator |-> awarder, description |-> description] :
                           c \in {x \in badges \ {b} :
                                    /\ prerequisites[x] # {}
                                    /\ \A q \in prerequisites[x] :
                                          q = b \/ is_awarded_to(q, awardee)
                                    /\ ~is_awarded_to(x, awardee)}}]

\* Badge.award_to run from the current state without interruption: its
\* outcome, the record it returns and the Award table it leaves.
award_to(b, awardee, awarder, description, raise_already_awarded) ==
    IF ~allows_award_to(b, awarder)
    THEN [line |-> 220, result |-> "BadgeAwardNotAllowedException", ret |-> NoAward,
          awards |-> awards]
    ELSE IF is_awarded_to(b, awardee)
    THEN IF raise_already_awarded
         THEN [line |-> 223, result |-> "BadgeAlreadyAwardedException", ret |-> NoAward,
               awards |-> awards]
         ELSE [line |-> 225, result |-> objects_get(b, awardee).result,
               ret |-> objects_get(b, awardee).ret, awards |-> awards]
    ELSE [line |-> 226, result |-> "ok",
          ret |-> objects_create(b, awardee, awarder, description),
          awards |-> awards \cup {objects_create(b, awardee, awarder, description)}]

\* The rows the deletion collector gathers from badge b: b itself and, through
\* the awarding_prerequisite foreign key (declared without on_delete, so
\* cascading), every badge whose awarding_prerequisite is a gathered badge.
RECURSIVE Collect(_)
Collect(S) ==
    LET T == S \cup {c \in badges : awarding_prerequisite[c] \in S} IN
    IF T = S THEN S ELSE Collect(T)

Init ==
    /\ badges = {}
    /\ awarding_prerequisite = [b \in Slugs |-> None]
    /\ prerequisites = [b \in Slugs |-> {}]
    /\ awards = {}
    /\ nextId = 1
    /\ last = NoLast
    /\ pc = [p \in Procs |-> "idle"]
    /\ call = [p \in Procs |-> NoCall]

\* BadgeCreate (CreateView over BadgeCreateForm): a new Badge row whose
\* prerequisites and awarding_prerequisite are chosen among the existing rows.
BadgeCreate(b, ap, pre) ==
    /\ b \notin badges
    /\ ap \in badges \cup {None}
    /\ pre \subseteq badges \ {b}
    /\ badges' = badges \cup {b}
    /\ awarding_prerequisite' = [awarding_prerequisite EXCEPT ![b] = ap]
    /\ prerequisites' = [prerequisites EXCEPT ![b] = pre]
    /\ last' = [NoLast EXCEPT !.op = "create", !.badge = b, !.result = "ok"]
    /\ UNCHANGED <<awards, nextId, pc, call>>

\* BadgeEdit (UpdateView over BadgeEditForm): both links are rewritten; the
\* badge itself is among the choices of awarding_prerequisite.  The forms
\* submitted here select prerequisites among the other badges only.
BadgeEdit(b, ap, pre) ==
    /\ b \in badges
    /\ ap \in badges \cup {None}
    /\ pre \subseteq badges \ {b}
    /\ awarding_prerequisite' = [awarding_prerequisite EXCEPT ![b] = ap]
    /\ prerequisites' = [prerequisites EXCEPT ![b] = pre]
    /\ last' = [NoLast EXCEPT !.op = "edit", !.badge = b, !.result = "ok"]
    /\ UNCHANGED <<badges, awards, nextId, pc, call>>

\* Badge.delete: the badge's awards, then the row with everything the
\* collector gathers (dependent badges, their awards, many-to-many rows).
delete(b) ==
    /\ b \in badges
    /\ LET gone == Collect({b}) IN
        /\ badges' = badges \ gone
        /\ awards' = {a \in awards : a.badge \notin gone}
        /\ awarding_prerequisite' =
              [c \in Slugs |-> IF c \in gone THEN None ELSE awarding_prerequisite[c]]
        /\ prerequisites' =
              [c \in Slugs |-> IF c \in gone THEN {} ELSE prerequisites[c] \ gone]
    /\ last' = [NoLast EXCEPT !.op = "delete", !.badge = b, !.result = "ok"]
    /\ UNCHANGED <<nextId, pc, call>>

\* A call of Badge.award_to that runs to completion.
AwardTo(b, awardee, awarder, description, raise_already_awarded) ==
    LET out == award_to(b, awardee, awarder, description, raise_already_awarded) IN
    /\ b \in badges
    /\ (out.awards # awards) => nextId <= MaxAwards
    /\ awards' = out.awards
    /\ nextId' = IF out.awards # awards THEN nextId + 1 ELSE nextId
    /\ last' = [op |-> "award_to", badge |-> b, user |-> awardee, line |-> out.line,
                result |-> out.result, ret |-> out.ret]
    /\ UNCHANGED <<badges, awarding_prerequisite, prerequisites, pc, call>>

\* award_to, line 219-220: the authorization check of a request of worker p.
Begin(p, b, awardee, awarder, description, raise_already_awarded) ==
    /\ pc[p] = "idle"
    /\ b \in badges
    /\ IF ~allows_award_to(b, awarder)
       THEN /\ last' = [op |-> "award_to", badge |-> b, user |-> awardee, line |-> 220,
                        result |-> "BadgeAwardNotAllowedException", ret |-> NoAward]
            /\ UNCHANGED <<pc, call>>
       ELSE /\ pc' = [pc EXCEPT ![p] = "is_awarded_to"]
            /\ call' = [call EXCEPT ![p] =
                          [badge |-> b, awardee |-> awardee, awarder |-> awarder,
                           description |-> description,
                           raise_already_awarded |-> raise_already_awarded]]
            /\ UNCHANGED last
    /\ UNCHANGED <<badges, awarding_prerequisite, prerequisites, awards, nextId>>

\* award_to, line 221-223: the duplicate check (one COUNT query).
IsAwardedTo(p) ==
    /\ pc[p] = "is_awarded_to"
    /\ IF is_awarded_to(call[p].badge, call[p].awardee)
       THEN IF call[p].raise_already_awarded
            THEN /\ last' = [op |-> "award_to", badge |-> call[p].badge,
                             user |-> call[p].awardee, line |-> 223,
                             result |-> "BadgeAlreadyAwardedException", ret |-> NoAward]
                 /\ pc' = [pc EXCEPT ![p] = "idle"]
                 /\ call' = [call EXCEPT ![p] = NoCall]
            ELSE /\ pc' = [pc EXCEPT ![p] = "get"]
                 /\ UNCHANGED <<last, call>>
       ELSE /\ pc' = [pc EXCEPT ![p] = "create"]
            /\ UNCHANGED <<last, call>>
    /\ UNCHANGED <<badges, awarding_prerequisite, prerequisites, awards, nextId>>

\* award_to, line 225: return Award.objects.get(user=awardee, badge=self).
Get(p) ==
    /\ pc[p] = "get"
    /\ last' = [op |-> "award_to", badge |-> call[p].badge, user |-> call[p].awardee,
                line |-> 225,
                result |-> objects_get(call[p].badge, call[p].awardee).result,
                ret |-> objects_get(call[p].badge, call[p].awardee).ret]
    /\ pc' = [pc EXCEPT ![p] = "idle"]
    /\ call' = [call EXCEPT ![p] = NoCall]
    /\ UNCHANGED <<badges, awarding_prerequisite, prerequisites, awards, nextId>>

\* Variant: the Award table rejects a second row for a (badge, user) pair.
Create_unique(p) ==
    /\ pc[p] = "create"
    /\ nextId <= MaxAwards
    /\ LET new == objects_create(call[p].badge, call[p].awardee, call[p].awarder,
                                 call[p].description) IN
        IF is_awarded_to(call[p].badge, call[p].awardee)
        THEN /\ awards' = awards
             /\ last' = [op |-> "award_to", badge |-> call[p].badge,
                         user |-> call[p].awardee, line |-> 226,
                         result |-> "IntegrityError", ret |-> NoAward]
        ELSE /\ awards' = awards \cup {new}
             /\ last' = [op |-> "award_to", badge |-> call[p].badge,
                         user |-> call[p].awardee, line |-> 226,
                         result |-> "ok", ret |-> new]
    /\ nextId' = nextId + 1
    /\ pc' = [pc EXCEPT ![p] = "idle"]
    /\ call' = [call EXCEPT ![p] = NoCall]
    /\ UNCHANGED <<badges, awarding_prerequisite, prerequisites>>

\* award_to, line 226: return Award.objects.create(...), one INSERT.
Create(p) ==
    /\ pc[p] = "create"
    /\ nextId <= MaxAwards
    /\ LET new == objects_create(call[p].badge, call[p].awardee, call[p].awarder,
                                 call[p].description) IN
        /\ awards' = awards \cup {new}
        /\ last' = [op |-> "award_to", badge |-> call[p].badge, user |-> call[p].awardee,
                    line |-> 226, result |-> "ok", ret |-> new]
    /\ nextId' = nextId + 1
    /\ pc' = [pc EXCEPT ![p] = "idle"]
    /\ call' = [call EXCEPT ![p] = NoCall]
    /\ UNCHANGED <<badges, awarding_prerequisite, prerequisites>>

Next ==
    \/ \E b \in Slugs, ap \in Slugs \cup {None}, pre \in SUBSET Slugs : BadgeCreate(b, ap, pre)
    \/ \E b \in Slugs, ap \in Slugs \cup {None}, pre \in SUBSET Slugs : BadgeEdit(b, ap, pre)
    \/ \E b \in Slugs : delete(b)
    \/ \E b \in Slugs, awardee \in Users, awarder \in Actors, d \in Descriptions,
          r \in BOOLEAN : AwardTo(b, awardee, awarder, d, r)

Spec == Init /\ [][Next]_vars

\* Concurrent award_to requests against a database that holds both badges:
\* b1 is awarded by superusers only, b2 also by the holders of b1.
InitConc ==
    /\ badges = Slugs
    /\ awarding_prerequisite = [b \in Slugs |-> IF b = "b2" THEN "b1" ELSE None]
    /\ prerequisites = [b \in Slugs |-> {}]
    /\ awards = {}
    /\ nextId = 1
    /\ last = NoLast
    /\ pc = [p \in Procs |-> "idle"]
    /\ call = [p \in Procs |-> NoCall]

NextConc ==
    \/ \E p \in Procs, b \in Slugs, awardee \in Users, awarder \in Actors,
          r \in BOOLEAN : Begin(p, b, awardee, awarder, DefaultDescription, r)
    \/ \E p \in Procs : IsAwardedTo(p)
    \/ \E p \in Procs : Get(p)
    \/ \E p \in Procs : Create(p)

SpecConc == InitConc /\ [][NextConc]_vars

----------------------------------------------------------------------------
\* The actors that are users without superuser status.
Regular == {u \in Users : ~is_superuser(u)}

\* Some Award row links badge b to user u.
Holds(b, u) == \E w \in awards : w.badge = b /\ w.user = u

\* C1: for every badge B and actor A, B.allows_award_to(A) is false when A is
\* absent or anonymous, true when A is a superuser, and for any other actor
\* true exactly when B.awarding_prerequisite is set and an Award of that
\* badge to A exists.
C1_AllowsAwardTo ==
    \A b \in badges, a \in Actors :
        /\ (a = None \/ a = Anonymous) => ~allows_award_to(b, a)
        /\ (a \in Users /\ is_superuser(a)) => allows_award_to(b, a)
        /\ a \in Regular =>
              (allows_award_to(b, a) <=>
                 (awarding_prerequisite[b] # None /\ Holds(awarding_prerequisite[b], a)))

\* A regular user has created an award, and is refused on a badge without
\* awarding prerequisite.
C1_Witness ==
    \E w \in awards, c \in badges :
        /\ w.creator \in Regular
        /\ allows_award_to(w.badge, w.creator)
        /\ awarding_prerequisite[c] = None
        /\ ~allows_award_to(c, w.creator)

\* C2: whenever B.allows_award_to(awarder) is false, award_to ends with
\* BadgeAwardNotAllowedException for every awardee and either value of
\* raise_already_awarded, also when the awardee holds B, and the Award table
\* is unchanged.
C2_NotAllowed ==
    [][last'.op = "award_to" =>
        \A a \in Actors, d \in Descriptions, r \in BOOLEAN :
          (~allows_award_to(last'.badge, a) /\ AwardTo(last'.badge, last'.user, a, d, r)) =>
              /\ last'.result = "BadgeAwardNotAllowedException"
              /\ last'.ret = NoAward
              /\ awards' = awards]_vars

\* A refused call whose awardee already holds the badge.
C2_Witness ==
    /\ last.op = "award_to"
    /\ last.result = "BadgeAwardNotAllowedException"
    /\ Holds(last.badge, last.user)

\* C3: after a call of award_to(awardee, awarder, raise_already_awarded=False)
\* by an authorized awarder, a second such call for the same badge and awardee
\* returns the record the first call returned and leaves the Award table as
\* the first call left it.
C3_Idempotent ==
    [][last'.op = "award_to" =>
        \A b \in Slugs, u \in Users, a \in Actors, d \in Descriptions :
          (/\ b = last'.badge /\ u = last'.user
           /\ allows_award_to(b, a)
           /\ AwardTo(b, u, a, d, FALSE)) =>
              /\ last'.result = "ok"
              /\ \A a2 \in Actors, d2 \in Descriptions :
                    allows_award_to(b, a2)' =>
                        /\ award_to(b, u, a2, d2, FALSE)'.result = "ok"
                        /\ award_to(b, u, a2, d2, FALSE)'.ret = last'.ret
                        /\ award_to(b, u, a2, d2, FALSE)'.awards = awards']_vars

\* A call that returned the existing record of a badge the awardee holds.
C3_Witness ==
    /\ last.op = "award_to"
    /\ last.line = 225
    /\ last.result = "ok"
    /\ last.ret \in awards
    /\ last.ret.badge = last.badge /\ last.ret.user = last.user

\* C4: after a call of award_to(..., raise_already_awarded=True) by an
\* authorized awarder for an awardee who did not hold B, which succeeds, a
\* second such call raises BadgeAlreadyAwardedException and leaves the Award
\* table unchanged.
C4_AlreadyAwarded ==
    [][last'.op = "award_to" =>
        \A b \in Slugs, u \in Users, a \in Actors, d \in Descriptions :
          (/\ b = last'.badge /\ u = last'.user
           /\ allows_award_to(b, a)
           /\ ~is_awarded_to(b, u)
           /\ AwardTo(b, u, a, d, TRUE)) =>
              /\ last'.result = "ok"
              /\ last'.ret \in awards'
              /\ \A a2 \in Actors, d2 \in Descriptions :
                    allows_award_to(b, a2)' =>
                        /\ award_to(b, u, a2, d2, TRUE)'.result
                              = "BadgeAlreadyAwardedException"
                        /\ award_to(b, u, a2, d2, TRUE)'.awards = awards']_vars

\* A call that raised BadgeAlreadyAwardedException.
C4_Witness ==
    /\ last.op = "award_to"
    /\ last.line = 223
    /\ last.result = "BadgeAlreadyAwardedException"
    /\ Holds(last.badge, last.user)

\* C5: the duplicate check and the INSERT of award_to are separate steps, and
\* the INSERT is unconditional: every Create step adds one new Award row for
\* the pair of its call, whether or not a row for that pair exists by then.
\* Two workers that both passed the check therefore leave two rows.
C5_CreateUnconditional ==
    [][\A p \in Procs, b \in Slugs, u \in Users :
          (Create(p) /\ b = call[p].badge /\ u = call[p].awardee) =>
              /\ pc[p] = "create"
              /\ Cardinality(AwardsOf(b, u)') = Cardinality(AwardsOf(b, u)) + 1
              /\ \A q \in Procs \ {p} : pc'[q] = pc[q] /\ call'[q] = call[q]]_vars

\* Two Award rows for one (badge, user) pair, left by the two workers.
C5_Witness ==
    \E w1 \in awards, w2 \in awards :
        /\ w1.id # w2.id
        /\ w1.badge = w2.badge /\ w1.user = w2.user
        /\ \A p \in Procs : pc[p] = "idle"

\* C6: after Badge.delete() on badge B no Award of B exists, B no longer
\* exists, and the Awards of every other badge are unchanged.
C6_DeleteFrame ==
    [][last'.op = "delete" =>
        \A b \in Slugs :
          delete(b) =>
              /\ b \notin badges'
              /\ \A w \in awards' : w.badge # b
              /\ {w \in awards' : w.badge # b} = {w \in awards : w.badge # b}]_vars

C8_AtMostOne ==
    \A b \in Slugs, u \in Users : Cardinality(AwardsOf(b, u)) <= 1

\* Two awards exist, and award_to was called again for a pair that has one.
C8_Witness ==
    /\ Cardinality(awards) >= 2
    /\ last.op = "award_to"
    /\ last.line \in {223, 225}
    /\ Cardinality(AwardsOf(last.badge, last.user)) = 1

\* C9: in every reachable state, also of interleaved award_to calls, if the
\* awarder is authorized and the awardee holds B, then
\* award_to(awardee, awarder, raise_already_awarded=False) returns an existing
\* Award of (B, awardee) without raising and leaves the Award table unchanged.
C9_ReturnsExisting ==
    \A b \in badges, u \in Users, a \in Actors :
        (allows_award_to(b, a) /\ is_awarded_to(b, u)) =>
            /\ award_to(b, u, a, DefaultDescription, FALSE).result = "ok"
            /\ award_to(b, u, a, DefaultDescription, FALSE).ret \in AwardsOf(b, u)
            /\ award_to(b, u, a, DefaultDescription, FALSE).awards = awards

\* C10: every Award row a step adds has a creator who, before the step, was a
\* superuser or held the badge's awarding prerequisite; and while the Award
\* table is empty every award_to call of an awarder who is no superuser is
\* refused and leaves it empty, whatever the awarding_prerequisite links.
C10_NoBootstrap ==
    [][/\ \A w \in awards' \ awards :
             \/ (w.creator \in Users /\ is_superuser(w.creator))
             \/ /\ w.creator \in Regular
                /\ awarding_prerequisite[w.badge] # None
                /\ Holds(awarding_prerequisite[w.badge], w.creator)
       /\ (last'.op = "award_to" /\ awards = {}) =>
             \A a \in {x \in Actors : ~is_superuser(x)}, d \in Descriptions, r \in BOOLEAN :
                 AwardTo(last'.badge, last'.user, a, d, r) =>
                     /\ last'.result = "BadgeAwardNotAllowedException"
                     /\ awards' = {}]_vars

\* A call refused on a badge that is its own awarding prerequisite, while no
\* award exists.
C10_Witness ==
    /\ last.op = "award_to"
    /\ last.result = "BadgeAwardNotAllowedException"
    /\ awards = {}
    /\ last.badge \in badges
    /\ awarding_prerequisite[last.badge] = last.badge

====
